---- MODULE Spec2Model ----
(***************************************************************************)
(* Model of the result aggregation controller of the Amazon Deals Finder   *)
(* front end (src/src/App.js): the React state of the App component, the   *)
(* fresh-search path (searchProducts, searchProductsWithKeyword), the      *)
(* pagination path (loadMoreFromServer), the bootstrap effect              *)
(* (autoLoadDeals), the view projection (filtered, displayedDeals), the    *)
(* IntersectionObserver effect, the highlight timer and the AI rewrite of  *)
(* a deal.                                                                 *)
(*                                                                         *)
(* An async function is cut at its awaits: the part up to the fetch is one *)
(* action, the continuation after the response is another.  JavaScript is  *)
(* single-threaded, so each part runs atomically.  React commits the       *)
(* re-render that a handler asks for, and re-runs the effects whose        *)
(* dependencies changed, before the browser delivers the next response,    *)
(* timeout or input event; so a handler reads the state its predecessor    *)
(* left.  The exception is inside one invocation of the observer callback: *)
(* every entry it delivers is handled by the same closure, on the values   *)
(* of the commit that subscribed it.                                       *)
(*                                                                         *)
(* Several specifications share the actions.  Spec starts from the state   *)
(* after construction and leaves the search box alone.  SpecSearch starts  *)
(* where the first two seeds of autoLoadDeals have failed and adds the     *)
(* search box; SpecTimer adds the highlight timer to it.  SpecCall starts  *)
(* where autoLoadDeals is over and calls searchProductsWithKeyword with    *)
(* any keyword.  SpecControls starts from the state after construction and *)
(* moves the filter controls.  SpecBoot is the bootstrap alone, with every *)
(* request settled in the end.  In these the deals of a response are given *)
(* ids no deal has.  Date.now() + Math.random() may also give a deal an id *)
(* that is in use: it does in SpecIds (the last two seeds of autoLoadDeals *)
(* and the scroll), in SpecMerge (the two updaters of setDeals applied to  *)
(* any batches) and in SpecRewrite (the bootstrap with the AI rewrite of   *)
(* the deals it loads).                                                    *)
(***************************************************************************)
EXTENDS Integers, Sequences, FiniteSets, TLC

VARIABLES
    deals,              \* useState([])    App.js:17  the raw collection
    searchQuery,        \* useState('')    App.js:18
    minDiscount,        \* useState(20)    App.js:19
    loading,            \* useState(false) App.js:20
    error,              \* useState('')    App.js:21
    lastAddedIds,       \* useState([])    App.js:23  the highlight set
    serverPage,         \* useState(1)     App.js:25
    isLoadingMore,      \* useState(false) App.js:27
    lastKeyword,        \* useState('')    App.js:28
    noMorePages,        \* useState(false) App.js:29
    showOnlyWithCodes,  \* useState(false) App.js:31
    debugPromotions,    \* useState(false) App.js:30
    maxResults,         \* useState(1000)  App.js:32
    timers,             \* pending highlight-expiry timeouts (setTimeout, 10000 ms)
    timerRef,           \* lastAddedTimerRef.current  App.js:24
    budget,             \* requests sent so far, by path; updaters applied on their own
    searches,           \* fresh-search requests awaiting their response
    pags,               \* pagination requests awaiting their response
    boots,              \* the running autoLoadDeals loops
    aiStatuses,         \* useState({})    App.js:48  status of the AI rewrite, by deal id
    rewrites,           \* rewrite requests awaiting their response; status resets pending
    lastOp              \* history: the handler that ran last and what it did

reactState == <<deals, searchQuery, minDiscount, loading, error, lastAddedIds,
                serverPage, isLoadingMore, lastKeyword, noMorePages,
                showOnlyWithCodes, maxResults, debugPromotions, aiStatuses>>
vars == <<reactState, timers, timerRef, budget, searches, pags, boots, rewrites, lastOp>>

-----------------------------------------------------------------------------
(* Bounds of the model. *)

\* longest deals array of one response
MaxBatch == 2
\* largest local id of a deal of the collection
MaxId == 3
\* entries one invocation of the observer callback delivers
MaxEntries == 2
\* searches the user submits in one run
MaxManual == 1
\* direct calls of searchProductsWithKeyword that send a request in one run
MaxDirect == 1
\* pagination requests sent in one run
MaxLoadMore == 2
\* fresh-search requests that may be awaiting a response at once
MaxSearches == 2
\* pagination requests that may be awaiting a response at once
MaxPags == 2
\* clicks on AI Rewrite in one run
MaxRewrites == 2
\* most deals the raw collection holds
MaxDeals == 3
\* autoLoadDeals loops started in one run
MaxBootRuns == 2
\* applications of an updater on its own in one run
MaxMerges == 2

-----------------------------------------------------------------------------
(* Program constants. *)

InitMinDiscount == 20
InitMaxResults == 1000
InitServerPage == 1
dedupeKey == "asin"

\* A string that is trimmed is the sequence of its UTF-16 code units.
\* ['electronics', 'home kitchen', 'wireless']
defaultKeywords ==
    << <<101, 108, 101, 99, 116, 114, 111, 110, 105, 99, 115>>,
       <<104, 111, 109, 101, 32, 107, 105, 116, 99, 104, 101, 110>>,
       <<119, 105, 114, 101, 108, 101, 115, 115>> >>

-----------------------------------------------------------------------------
(* Inputs: what the user can type or select, and what the server can send. *)

\* '', a tab, ' tv'
QueryInputs == { <<>>, <<9>>, <<32, 116, 118>> }
\* '', a space and a no-break space, 'tv'
KeywordInputs == { <<>>, <<32, 160>>, <<116, 118>> }
\* The texts typed that are a keyword.
KeywordQueries == { <<32, 116, 118>> }
MinDiscountInputs == {20, 30}

\* The slider of maxResults goes from 10 to 1000 in steps of 10.  The model's
\* collections hold at most MaxId deals, so its positions are scaled down:
\* the least one is below the size a collection can have, the greatest one
\* above it.
MaxResultsInputs == {1, 1000}

\* Positions of the two sliders around the discounts of the deals and the
\* sizes a collection can have.
DiscountLevels == MinDiscountInputs \cup {0, 19, 21, 40, 41, 100}
ResultLevels == MaxResultsInputs \cup {2, 3, 4}

\* The discount of a deal: <<n>> is the number n, <<>> a deal that has no
\* discount field (d.discount is undefined).
NoDiscount == <<>>

\* A deal of a response.  It has its prices and its number of reviews: the
\* card of a displayed deal is rendered from them (App.js:784-809).
Payload(asin, url, title, discount, code, couponCode) ==
    [asin |-> asin, url |-> url, title |-> title, discount |-> discount,
     code |-> code, couponCode |-> couponCode, promoCode |-> "", coupon |-> "",
     originalPrice |-> 100, currentPrice |-> 60, reviewCount |-> 7]

\* The deals the search endpoint may return: one whose discount is the
\* initial minDiscount, one that has no discount.
ServerDeals ==
    { Payload("A1", "u1", "t1", <<20>>, "SAVE", ""),
      Payload("A2", "u2", "t2", NoDiscount, "", "") }

RECURSIVE SeqsUpTo(_, _)
SeqsUpTo(S, n) ==
    IF n = 0 THEN { <<>> }
    ELSE LET shorter == SeqsUpTo(S, n - 1)
         IN  shorter \cup { Append(s, x) : s \in { t \in shorter : Len(t) = n - 1 }, x \in S }

Batches == SeqsUpTo(ServerDeals, MaxBatch)

\* A deal that only a later page of the results has.
LaterDeal == Payload("A3", "u3", "t3", <<40>>, "", "")

PageBatches == Batches \cup { <<LaterDeal>> }

\* Deals whose identity key comes from each place of the fallback chain: the
\* asin, the url (no asin), the title (no asin, no url), and none at all.
MergeDeals ==
    { Payload("A1", "u1", "t1", <<20>>, "SAVE", ""),
      Payload("", "u1", "t3", <<30>>, "", ""),
      Payload("", "", "t1", <<30>>, "", ""),
      Payload("", "", "", <<30>>, "", "") }

MergeBatches == SeqsUpTo(MergeDeals, MaxBatch)

\* What Date.now() + Math.random() gives to the deals of one response, deal
\* by deal: 0 stands for a value no deal has, a positive number for that id,
\* which a deal of the collection, or a deal before it in the response, has
\* already; any id in use can come again.  Ids are compared for equality
\* only.
NoRepeat == [i \in 1..MaxBatch |-> 0]
IdDraws == [1..MaxBatch -> 0..MaxId]

\* What a request can end in: the fetch rejects; the body cannot be parsed;
\* or a body arrives, with a transport status (ok), a success flag and,
\* possibly, a deals array.  draw: the ids its deals are given when the
\* response is handled.
WithDealsIds(ok, batch, draw) ==
    [kind |-> "body", ok |-> ok, success |-> TRUE, hasDeals |-> TRUE, deals |-> batch,
     draw |-> draw]

WithDeals(ok, batch) == WithDealsIds(ok, batch, NoRepeat)

\* The responses handled while the clock and Math.random repeat an id.
SameIdResponses == { WithDealsIds(TRUE, b, d) : b \in Batches, d \in IdDraws \ {NoRepeat} }

Responses ==
    { [kind |-> k, ok |-> FALSE, success |-> FALSE, hasDeals |-> FALSE, deals |-> <<>>,
       draw |-> NoRepeat]
        : k \in {"reject", "unparsable"} }
    \cup { [kind |-> "body", ok |-> o, success |-> FALSE, hasDeals |-> FALSE, deals |-> <<>>,
             draw |-> NoRepeat]
        : o \in BOOLEAN }
    \cup { [kind |-> "body", ok |-> o, success |-> TRUE, hasDeals |-> FALSE, deals |-> <<>>,
             draw |-> NoRepeat]
        : o \in BOOLEAN }
    \cup { WithDeals(o, b) : o \in BOOLEAN, b \in Batches }
    \cup SameIdResponses

\* What a pagination request can end in.
PageResponses ==
    Responses
    \cup { WithDeals(o, <<LaterDeal>>) : o \in BOOLEAN }
    \cup { WithDealsIds(TRUE, <<LaterDeal>>, d) : d \in IdDraws \ {NoRepeat} }

\* The responses whose deals are all given an id no deal has.
FreshIdResponses == { r \in Responses : r.draw = NoRepeat }
FreshIdPageResponses == { r \in PageResponses : r.draw = NoRepeat }

-----------------------------------------------------------------------------
(* Pure helpers. *)

\* The code units String.prototype.trim removes: WhiteSpace (TAB, VT, FF,
\* SP, NBSP, the space separators U+1680, U+2000..U+200A, U+202F, U+205F and
\* U+3000, and U+FEFF) and LineTerminator (LF, CR, U+2028, U+2029).
IsSpace(c) ==
    c \in {9, 10, 11, 12, 13, 32, 160, 5760, 8232, 8233, 8239, 8287, 12288, 65279}
          \cup 8192..8202

\* String.prototype.trim
RECURSIVE TrimLeft(_)
TrimLeft(s) ==
    IF s # <<>> /\ IsSpace(Head(s)) THEN TrimLeft(Tail(s)) ELSE s

RECURSIVE TrimRight(_)
TrimRight(s) ==
    IF s # <<>> /\ IsSpace(s[Len(s)]) THEN TrimRight(SubSeq(s, 1, Len(s) - 1)) ELSE s

trim(s) == TrimRight(TrimLeft(s))

\* a || b || c || d : the first truthy operand, else the last one
RECURSIVE OrChain(_)
OrChain(vals) ==
    IF Len(vals) = 1 \/ Head(vals) # "" THEN Head(vals) ELSE OrChain(Tail(vals))

\* The key taken from the asin alone.
dealKeyAsinOnly(p) == p.asin

\* p[dedupeKey] || p.asin || p.url || p.title
dealKey(p) ==
    IF p[dedupeKey] # "" THEN p[dedupeKey]
    ELSE IF p.asin # "" THEN p.asin
    ELSE IF p.url # "" THEN p.url
    ELSE p.title

getDealCode(deal) == OrChain(<<deal.code, deal.couponCode, deal.promoCode, deal.coupon, "">>)

\* The largest id in use.
RECURSIVE lastId(_)
lastId(ds) ==
    IF ds = <<>> THEN 0
    ELSE LET m == lastId(Tail(ds)) IN IF Head(ds).id > m THEN Head(ds).id ELSE m

\* data.deals.map((d) => ({ ...d, id: Date.now() + Math.random() }))
\* clock: the largest id in use; the deal at i gets the id draw[i], or
\* clock + i, an id no deal has, where draw[i] is 0.
withIds(batch, clock, draw) ==
    [i \in 1..Len(batch) |->
        [asin |-> batch[i].asin, url |-> batch[i].url, title |-> batch[i].title,
         discount |-> batch[i].discount, code |-> batch[i].code,
         couponCode |-> batch[i].couponCode, promoCode |-> batch[i].promoCode,
         coupon |-> batch[i].coupon, originalPrice |-> batch[i].originalPrice,
         currentPrice |-> batch[i].currentPrice, reviewCount |-> batch[i].reviewCount,
         id |-> IF draw[i] = 0 THEN clock + i ELSE draw[i], rewritten |-> ""]]

\* The draw repeats ids that are in use: those of the collection and those
\* given to the deals before it in the response.
repeats(draw, ds, n) ==
    \A i \in 1..MaxBatch :
       draw[i] # 0 =>
          /\ i <= n
          /\ \/ \E j \in 1..Len(ds) : ds[j].id = draw[i]
             \/ \E j \in 1..(i - 1) : draw[j] = 0 /\ draw[i] = lastId(ds) + j

\* The lookup built from the first deal of the collection only.
existingKeysOfFirst(prev) == IF prev = <<>> THEN {} ELSE { dealKey(prev[1]) }

\* new Set(prev.map((p) => p[dedupeKey] || p.asin || p.url || p.title))
existingKeys(prev) == { dealKey(prev[i]) : i \in 1..Len(prev) }

\* The filter without its test against existingKeys.
uniqueNewKeyedOnly(prev, newDeals) == SelectSeq(newDeals, LAMBDA n : dealKey(n) # "")

\* newDeals.filter((n) => { const key = ...; return key && !existingKeys.has(key); })
uniqueNew(prev, newDeals) ==
    LET keys == existingKeys(prev)
    IN  SelectSeq(newDeals, LAMBDA n : dealKey(n) # "" /\ dealKey(n) \notin keys)

\* d.discount < minDiscount: false for a deal that has no discount
\* (undefined < n is false for every number n).
lessThan(discount, n) == discount # NoDiscount /\ discount[1] < n

\* The filter keeping the deals below the minimum.
filteredOfBelow(ds, minD, onlyCodes) ==
    SelectSeq(ds, LAMBDA d : lessThan(d.discount, minD) /\ ~(onlyCodes /\ getDealCode(d) = ""))

\* deals.filter(...) of the view projection
filteredOf(ds, minD, onlyCodes) ==
    SelectSeq(ds, LAMBDA d : ~lessThan(d.discount, minD) /\ ~(onlyCodes /\ getDealCode(d) = ""))

\* Array.prototype.slice(0, n)
slice0(s, n) == SubSeq(s, 1, IF n < Len(s) THEN n ELSE Len(s))

filtered == filteredOf(deals, minDiscount, showOnlyWithCodes)
displayedDeals == slice0(filtered, maxResults)

RemoveAt(s, i) == SubSeq(s, 1, i - 1) \o SubSeq(s, i + 1, Len(s))

-----------------------------------------------------------------------------
(* The merge of the two paths (the updater passed to setDeals). *)

\* The fresh search appending like the pagination.
mergeFreshAppends(prev, newDeals) == prev \o uniqueNew(prev, newDeals)

\* return [...uniqueNew, ...prev]            (fresh search)
mergeFresh(prev, newDeals) == uniqueNew(prev, newDeals) \o prev

\* return [...prev, ...uniqueNew]            (pagination)
mergeMore(prev, newDeals) == prev \o uniqueNew(prev, newDeals)

\* The ids of the whole response.
addedIdsOfBatch(prev, newDeals) == [i \in 1..Len(newDeals) |-> newDeals[i].id]

\* const addedIds = uniqueNew.map((n) => n.id)
addedIds(prev, newDeals) ==
    LET unique == uniqueNew(prev, newDeals)
    IN  [i \in 1..Len(unique) |-> unique[i].id]

\* if (addedIds.length > 0) { setLastAddedIds(addedIds);
\*   if (lastAddedTimerRef.current) clearTimeout(lastAddedTimerRef.current);
\*   lastAddedTimerRef.current = setTimeout(() => setLastAddedIds([]), 10000); }
\* timers counts the pending timeouts; timerRef tells whether the timeout
\* the ref names is still pending ("live"), is over ("dead"), or the ref is null.
timersAfterClearNone == timers

timersAfterClear == IF timerRef = "live" THEN timers - 1 ELSE timers

\* The timeout started without being kept in lastAddedTimerRef.current.
MarkForgetsTimer(ids) ==
    IF Len(ids) > 0
    THEN /\ lastAddedIds' = ids
         /\ timers' = timersAfterClear + 1
         /\ timerRef' = timerRef
    ELSE UNCHANGED <<lastAddedIds, timers, timerRef>>

Mark(ids) ==
    IF Len(ids) > 0
    THEN /\ lastAddedIds' = ids
         /\ timers' = timersAfterClear + 1
         /\ timerRef' = "live"
    ELSE UNCHANGED <<lastAddedIds, timers, timerRef>>

\* The collection after a merge stays within the bounds of the model.
withinBounds(ds) == lastId(ds) <= MaxId /\ Len(ds) <= MaxDeals

\* The history of a step that applied an updater to a batch with a draw.
Applied(op, batch, draw) ==
    [op |-> op, how |-> "-", stale |-> FALSE, began |-> FALSE, found |-> FALSE,
     restarted |-> FALSE, batch |-> batch, draw |-> draw]

\* The updater of searchProductsWithKeyword (App.js:103-123) applied to the
\* deals of a response, given the ids of the draw.
ApplyMergeFresh(batch, draw) ==
    /\ LET newDeals == withIds(batch, lastId(deals), draw)
       IN  /\ budget.merges < MaxMerges
           /\ repeats(draw, deals, Len(batch))
           /\ withinBounds(mergeFresh(deals, newDeals))
           /\ deals' = mergeFresh(deals, newDeals)
           /\ Mark(addedIds(deals, newDeals))
    /\ budget' = [budget EXCEPT !.merges = @ + 1]
    /\ lastOp' = Applied("mergeFresh", batch, draw)
    /\ UNCHANGED <<searchQuery, minDiscount, loading, error, serverPage,
                   isLoadingMore, lastKeyword, noMorePages, showOnlyWithCodes,
                   maxResults, debugPromotions, searches, pags, boots,
                   aiStatuses, rewrites>>

\* The updater of loadMoreFromServer (App.js:163-184) applied likewise.
ApplyMergeMore(batch, draw) ==
    /\ LET newDeals == withIds(batch, lastId(deals), draw)
       IN  /\ budget.merges < MaxMerges
           /\ repeats(draw, deals, Len(batch))
           /\ withinBounds(mergeMore(deals, newDeals))
           /\ deals' = mergeMore(deals, newDeals)
           /\ noMorePages' = (noMorePages \/ Len(uniqueNew(deals, newDeals)) = 0)
           /\ Mark(addedIds(deals, newDeals))
    /\ budget' = [budget EXCEPT !.merges = @ + 1]
    /\ lastOp' = Applied("mergeMore", batch, draw)
    /\ UNCHANGED <<searchQuery, minDiscount, loading, error, serverPage,
                   isLoadingMore, lastKeyword, showOnlyWithCodes, maxResults,
                   debugPromotions, searches, pags, boots,
                   aiStatuses, rewrites>>

-----------------------------------------------------------------------------
(* State. *)

\* History of the last step.  op: the handler that ran; how: the branch it
\* took ("shown" for the observer callback: an entry was intersecting while
\* every filtered deal was displayed); stale: it handled the response to a
\* pagination request that a fresh search, started while the request was in
\* flight, has superseded, to a fresh search that a search started after it
\* has overtaken, or to a rewrite request made before the collection grew;
\* began: the session had advanced (page > 1 or
\* exhausted) when the search it belongs to was started; found: the session
\* had advanced when the handler started; restarted: the handler marked a
\* batch while the timeout of an earlier batch was pending (a timeout that
\* fires right after it keeps the flag); batch, draw: the deals and the ids
\* an updater applied on its own was given.
NoOp == [op |-> "init", how |-> "-", stale |-> FALSE, began |-> FALSE, found |-> FALSE,
         restarted |-> FALSE, batch |-> <<>>, draw |-> NoRepeat]

advanced(page, exhausted) == page # InitServerPage \/ exhausted

\* aiStatuses by deal id; "" where the object has no entry.
NoStatuses == [x \in 1..MaxId |-> ""]

\* inFlight: the rewrite requests awaiting their response, each with the deal
\* id of its button and the length of the collection when it was clicked;
\* resets: the pending setTimeout(..., 3000) of each deal id; clicks: the
\* requests sent so far.
NoRewrites == [inFlight |-> <<>>, resets |-> [x \in 1..MaxId |-> 0], clicks |-> 0]

Init ==
    /\ deals = <<>>
    /\ searchQuery = <<>>
    /\ minDiscount = InitMinDiscount
    /\ loading = FALSE
    /\ error = ""
    /\ lastAddedIds = <<>>
    /\ serverPage = InitServerPage
    /\ isLoadingMore = FALSE
    /\ lastKeyword = <<>>
    /\ noMorePages = FALSE
    /\ showOnlyWithCodes = FALSE
    /\ maxResults = InitMaxResults
    /\ debugPromotions = FALSE
    /\ timers = 0
    /\ timerRef = "null"
    /\ budget = [manual |-> 0, direct |-> 0, more |-> 0, merges |-> 0]
    /\ searches = <<>>
    /\ pags = <<>>
    /\ boots = << [i |-> 1, pc |-> "call"] >>
    /\ aiStatuses = NoStatuses
    /\ rewrites = NoRewrites
    /\ lastOp = NoOp

-----------------------------------------------------------------------------
(* The controls. *)

\* What the commit after a change of minDiscount does: searchProductsWithKeyword
\* is useCallback(..., [minDiscount, API_BASE, dedupeKey, debugPromotions])
\* (App.js:132), and the effect that calls autoLoadDeals() has it as its only
\* dependency (App.js:286-299), so the effect runs again.
autoLoadEffect(bs) == Append(bs, [i |-> 1, pc |-> "call"])

\* onChange={(e) => setMinDiscount(Number(e.target.value))}, and the commit.
SetMinDiscount(v) ==
    /\ v # minDiscount
    /\ Len(boots) < MaxBootRuns
    /\ minDiscount' = v
    /\ boots' = autoLoadEffect(boots)
    /\ lastOp' = [NoOp EXCEPT !.op = "setMinDiscount"]
    /\ UNCHANGED <<deals, searchQuery, loading, error, lastAddedIds, serverPage,
                   isLoadingMore, lastKeyword, noMorePages, showOnlyWithCodes,
                   maxResults, timers, timerRef, budget, searches, pags,
                   debugPromotions, aiStatuses, rewrites>>

\* onChange={(e) => setDebugPromotions(e.target.checked)}, and the commit:
\* debugPromotions is a dependency of searchProductsWithKeyword as well.
SetDebugPromotions(v) ==
    /\ v # debugPromotions
    /\ Len(boots) < MaxBootRuns
    /\ debugPromotions' = v
    /\ boots' = autoLoadEffect(boots)
    /\ lastOp' = [NoOp EXCEPT !.op = "setDebugPromotions"]
    /\ UNCHANGED <<deals, searchQuery, minDiscount, loading, error, lastAddedIds,
                   serverPage, isLoadingMore, lastKeyword, noMorePages,
                   showOnlyWithCodes, maxResults, timers, timerRef, budget, searches,
                   pags, aiStatuses, rewrites>>

\* onChange={(e) => setMaxResults(Number(e.target.value))}
SetMaxResults(v) ==
    /\ v # maxResults
    /\ maxResults' = v
    /\ lastOp' = [NoOp EXCEPT !.op = "control"]
    /\ UNCHANGED <<deals, searchQuery, minDiscount, loading, error, lastAddedIds,
                   serverPage, isLoadingMore, lastKeyword, noMorePages,
                   showOnlyWithCodes, timers, timerRef, budget, searches,
                   pags, boots,
                   debugPromotions, aiStatuses, rewrites>>

\* onChange={(e) => setShowOnlyWithCodes(e.target.checked)}
SetShowOnlyWithCodes(v) ==
    /\ v # showOnlyWithCodes
    /\ showOnlyWithCodes' = v
    /\ lastOp' = [NoOp EXCEPT !.op = "control"]
    /\ UNCHANGED <<deals, searchQuery, minDiscount, loading, error, lastAddedIds,
                   serverPage, isLoadingMore, lastKeyword, noMorePages, maxResults,
                   timers, timerRef, budget, searches, pags, boots,
                   debugPromotions, aiStatuses, rewrites>>

-----------------------------------------------------------------------------
(* Fresh search. *)

\* A fresh search starts: it is search number n of those awaiting a response,
\* and every pagination request in flight is crossed by it.
crossedBy(ps, n) == [j \in 1..Len(ps) |-> [ps[j] EXCEPT !.crossed = @ \cup {n}]]

\* Search number i is answered.  reset: its success branch ran.  A pagination
\* request it crossed is stale from then on; the searches after it move up.
answered(ps, i, reset) ==
    [j \in 1..Len(ps) |->
        [ps[j] EXCEPT !.stale = @ \/ (reset /\ i \in ps[j].crossed),
                      !.crossed = { IF n > i THEN n - 1 ELSE n : n \in @ \ {i} }]]

\* Search number i is answered: it leaves the searches awaiting a response,
\* and those started before it are overtaken if its success branch ran.
overtaking(ss, i, reset) ==
    RemoveAt([j \in 1..Len(ss) |->
                 [ss[j] EXCEPT !.overtaken = @ \/ (reset /\ j < i)]], i)

\* The keyword test without its trim.
isEmptyKeywordNoTrim(keyword) == Len(keyword) = 0

\* if (!keyword || keyword.trim().length === 0)
isEmptyKeyword(keyword) == Len(keyword) = 0 \/ Len(trim(keyword)) = 0

\* if (!searchQuery.trim()) return;
isBlankQuery(q) == Len(trim(q)) = 0

\* searchProductsWithKeyword(keyword), up to the await of fetch (App.js:63-86).
\* caller is "manual", "boot" or "direct"; run is the loop that awaits it; was
\* is the session as the caller found it; overtaken: a search started after
\* this one has run its success branch already.
searchStart(keyword, caller, run, was) ==
    /\ loading' = IF isEmptyKeyword(keyword) THEN FALSE ELSE TRUE
    /\ error' = IF isEmptyKeyword(keyword) THEN "empty" ELSE ""
    /\ searches' = IF isEmptyKeyword(keyword) THEN searches
                   ELSE Append(searches,
                               [keyword |-> keyword, sent |-> trim(keyword),
                                caller |-> caller, run |-> run, was |-> was,
                                overtaken |-> FALSE])
    /\ pags' = IF isEmptyKeyword(keyword) THEN pags
               ELSE crossedBy(pags, Len(searches) + 1)

session == [page |-> serverPage, exhausted |-> noMorePages]

\* The three setters searchProducts calls before the search (App.js:137-139).
manualReset(q) ==
    /\ serverPage' = 1
    /\ noMorePages' = FALSE
    /\ lastKeyword' = q

\* The user changes the text of the search box to q:
\* onChange={(e) => setSearchQuery(e.target.value)} (App.js:394).
SetSearchQuery(q) ==
    /\ q # searchQuery
    /\ searchQuery' = q
    /\ lastOp' = [NoOp EXCEPT !.op = "setSearchQuery"]
    /\ UNCHANGED <<deals, minDiscount, loading, error, lastAddedIds, serverPage,
                   isLoadingMore, lastKeyword, noMorePages, showOnlyWithCodes,
                   maxResults, debugPromotions, timers, timerRef, budget, searches,
                   pags, boots, aiStatuses, rewrites>>

\* The user submits the search box (Enter, or the button): searchProducts
\* (App.js:135-142) runs up to the await of fetch.
SearchProducts ==
    /\ isBlankQuery(searchQuery)
          \/ (Len(searches) < MaxSearches /\ budget.manual < MaxManual)
    /\ IF isBlankQuery(searchQuery)
       THEN /\ lastOp' = [NoOp EXCEPT !.op = "searchProducts", !.how = "empty"]
            /\ UNCHANGED <<loading, error, searches, pags, serverPage, noMorePages,
                           lastKeyword, budget>>
       ELSE /\ manualReset(searchQuery)
            /\ searchStart(searchQuery, "manual", 0, session)
            /\ budget' = [budget EXCEPT !.manual = @ + 1]
            /\ lastOp' = [NoOp EXCEPT !.op = "searchProducts",
                                      !.how = IF isEmptyKeyword(searchQuery)
                                              THEN "empty" ELSE "sent",
                                      !.began = advanced(serverPage, noMorePages),
                                      !.found = advanced(serverPage, noMorePages)]
    /\ UNCHANGED <<deals, searchQuery, minDiscount, lastAddedIds, isLoadingMore,
                   showOnlyWithCodes, maxResults, timers, timerRef, boots,
                   debugPromotions, aiStatuses, rewrites>>

\* searchProductsWithKeyword(keyword) called with any keyword.
SearchProductsWithKeyword(keyword) ==
    /\ isEmptyKeyword(keyword) \/ (Len(searches) < MaxSearches /\ budget.direct < MaxDirect)
    /\ searchStart(keyword, "direct", 0, session)
    /\ budget' = IF isEmptyKeyword(keyword) THEN budget
                 ELSE [budget EXCEPT !.direct = @ + 1]
    /\ lastOp' = [NoOp EXCEPT !.op = "searchProductsWithKeyword",
                              !.how = IF isEmptyKeyword(keyword) THEN "empty" ELSE "sent",
                              !.began = advanced(serverPage, noMorePages),
                              !.found = advanced(serverPage, noMorePages)]
    /\ UNCHANGED <<deals, searchQuery, minDiscount, lastAddedIds, serverPage,
                   isLoadingMore, lastKeyword, noMorePages, showOnlyWithCodes,
                   maxResults, timers, timerRef, boots,
                   debugPromotions, aiStatuses, rewrites>>

\* One iteration of the for loop of autoLoadDeals (App.js:289-291):
\*   await searchProductsWithKeyword(keyword)
BootCall(b) ==
    /\ b \in 1..Len(boots)
    /\ boots[b].pc = "call"
    /\ Len(searches) < MaxSearches
    /\ LET keyword == defaultKeywords[boots[b].i]
       IN  /\ searchStart(keyword, "boot", b, session)
           /\ boots' = [boots EXCEPT ![b].pc =
                            IF isEmptyKeyword(keyword) THEN "delay" ELSE "await"]
           /\ lastOp' = [NoOp EXCEPT !.op = "autoLoadDeals",
                                     !.how = IF isEmptyKeyword(keyword) THEN "empty" ELSE "sent",
                                     !.began = advanced(serverPage, noMorePages),
                                     !.found = advanced(serverPage, noMorePages)]
    /\ UNCHANGED <<deals, searchQuery, minDiscount, lastAddedIds, serverPage,
                   isLoadingMore, lastKeyword, noMorePages, showOnlyWithCodes,
                   maxResults, timers, timerRef, budget,
                   debugPromotions, aiStatuses, rewrites>>

\* await new Promise((r) => setTimeout(r, 1000)) has elapsed (App.js:292).
BootDelay(b) ==
    /\ b \in 1..Len(boots)
    /\ boots[b].pc = "delay"
    /\ boots' = [boots EXCEPT ![b] =
                    IF boots[b].i < Len(defaultKeywords)
                    THEN [i |-> boots[b].i + 1, pc |-> "call"]
                    ELSE [i |-> boots[b].i, pc |-> "done"]]
    /\ lastOp' = [NoOp EXCEPT !.op = "bootDelay"]
    /\ UNCHANGED <<reactState, timers, timerRef, budget, searches, pags, rewrites>>

\* How the body of a fresh-search response is taken (App.js:88-130).
searchOutcome(r) ==
    IF r.kind # "body" THEN "thrown"              \* catch (err)
    ELSE IF ~r.ok THEN "httpError"                \* if (!response.ok)
    ELSE IF ~r.success THEN "appError"            \* else branch of if (data.success)
    ELSE IF ~r.hasDeals THEN "thrownAfterReset"   \* data.deals.map throws
    ELSE "merged"

\* The success branch recording the keyword as it was sent.
freshSessionTrimmed(keyword) ==
    [lastKeyword |-> trim(keyword), serverPage |-> 1, noMorePages |-> FALSE]

\* The session as the success branch sets it (App.js:99-101).
freshSession(keyword) == [lastKeyword |-> keyword, serverPage |-> 1, noMorePages |-> FALSE]

\* The loop ended by a search that failed.
afterSearchStopsOnFailure(how) ==
    IF how \in {"thrown", "httpError", "appError"} THEN "done" ELSE "delay"

\* await searchProductsWithKeyword(keyword) returns whatever the outcome (the
\* catch of searchProductsWithKeyword swallows the failure), and the loop goes
\* on to its delay (App.js:291-292).
afterSearch(how) == "delay"

\* The continuation of searchProductsWithKeyword after the response, followed
\* by the continuation of its caller (setSearchQuery('') of searchProducts,
\* the delay of autoLoadDeals).
SearchResponse(i, r) ==
    /\ i \in 1..Len(searches)
    /\ LET req == searches[i]
           how == searchOutcome(r)
           newDeals == withIds(r.deals, lastId(deals), r.draw)
           reset == how \in {"merged", "thrownAfterReset"}
       IN  /\ searches' = overtaking(searches, i, reset)
           /\ loading' = FALSE
           /\ IF how = "merged"
              THEN /\ repeats(r.draw, deals, Len(r.deals))
                   /\ withinBounds(mergeFresh(deals, newDeals))
              ELSE r.draw = NoRepeat
           /\ lastKeyword' = IF reset THEN freshSession(req.keyword).lastKeyword ELSE lastKeyword
           /\ serverPage' = IF reset THEN freshSession(req.keyword).serverPage ELSE serverPage
           /\ noMorePages' = IF reset THEN freshSession(req.keyword).noMorePages ELSE noMorePages
           /\ deals' = IF how = "merged" THEN mergeFresh(deals, newDeals) ELSE deals
           /\ IF how = "merged" THEN Mark(addedIds(deals, newDeals))
              ELSE UNCHANGED <<lastAddedIds, timers, timerRef>>
           /\ error' = CASE how = "merged" -> error
                         [] how = "httpError" -> "server"
                         [] how = "appError" -> "failed"
                         [] OTHER -> "connect"
           /\ pags' = answered(pags, i, reset)
           /\ searchQuery' = IF req.caller = "manual" THEN <<>> ELSE searchQuery
           /\ boots' = IF req.caller = "boot"
                       THEN [boots EXCEPT ![req.run].pc = afterSearch(how)] ELSE boots
           /\ lastOp' = [NoOp EXCEPT !.op = req.caller \o "Response",
                                     !.how = how,
                                     !.stale = req.overtaken,
                                     !.began = advanced(req.was.page, req.was.exhausted),
                                     !.found = advanced(serverPage, noMorePages),
                                     !.restarted = /\ how = "merged"
                                                   /\ timerRef = "live"
                                                   /\ Len(uniqueNew(deals, newDeals)) > 0]
    /\ UNCHANGED <<minDiscount, isLoadingMore, showOnlyWithCodes, maxResults, budget,
                   debugPromotions, aiStatuses, rewrites>>

-----------------------------------------------------------------------------
(* Pagination. *)

\* The guard without its test of noMorePages.
loadMoreGuardBusyOnly(loadingMore, exhausted) == ~loadingMore

\* if (isLoadingMore || noMorePages) return;
loadMoreGuard(loadingMore, exhausted) == ~(loadingMore \/ exhausted)

\* The test of the visibility alone.
sentinelWantsVisibleOnly(isIntersecting, filteredLen, displayedLen) == isIntersecting

\* if (e.isIntersecting && filtered.length > displayedDeals.length)
sentinelWants(isIntersecting, filteredLen, displayedLen) ==
    isIntersecting /\ filteredLen > displayedLen

\* const nextPage = serverPage + 1; and the body of the request (App.js:147-158)
pageRequest(keyword, page) ==
    [keyword |-> keyword, page |-> page + 1, crossed |-> {}, stale |-> FALSE]

RECURSIVE Copies(_, _)
Copies(x, n) == IF n = 0 THEN <<>> ELSE Append(Copies(x, n - 1), x)

Entries == SeqsUpTo(BOOLEAN, MaxEntries) \ { <<>> }
\* The invocations that deliver one entry: the effect observes one element.
OneEntry == { entries \in Entries : Len(entries) = 1 }

\* One invocation of the observer callback (App.js:338-344) with its entries.
\* For every entry that passes the test it calls loadMoreFromServer, which
\* runs up to the await of fetch (App.js:144-159).  All the calls of the
\* invocation are made on the same closure: they read the isLoadingMore,
\* noMorePages, serverPage and lastKeyword of the commit that subscribed it,
\* and setIsLoadingMore(true) of one call is not seen by the next.
Sentinel(entries) ==
    /\ LET calls == Len(SelectSeq(entries,
                        LAMBDA e : sentinelWants(e, Len(filtered), Len(displayedDeals))))
           sent == IF loadMoreGuard(isLoadingMore, noMorePages) THEN calls ELSE 0
       IN  /\ Len(pags) + sent <= MaxPags
           /\ budget.more + sent <= MaxLoadMore
           /\ budget' = [budget EXCEPT !.more = @ + sent]
           /\ isLoadingMore' = IF sent > 0 THEN TRUE ELSE isLoadingMore
           /\ pags' = pags \o Copies(pageRequest(lastKeyword, serverPage), sent)
           /\ lastOp' = [NoOp EXCEPT !.op = "sentinel",
                                     !.how = IF sent > 0 THEN "sent"
                                             ELSE IF calls > 0 THEN "guarded"
                                             ELSE IF \E k \in 1..Len(entries) : entries[k]
                                                  THEN "shown"
                                             ELSE "idle"]
    /\ UNCHANGED <<deals, searchQuery, minDiscount, loading, error, lastAddedIds,
                   serverPage, lastKeyword, noMorePages, showOnlyWithCodes, maxResults,
                   timers, timerRef, searches, boots,
                   debugPromotions, aiStatuses, rewrites>>

\* How the body of a pagination response is taken (App.js:160-189): the
\* transport status is not looked at.
pageOutcome(r) ==
    IF r.kind # "body" THEN "thrown"              \* catch (err)
    ELSE IF ~r.success THEN "appError"            \* if (data.success) not taken
    ELSE IF ~r.hasDeals THEN "thrown"             \* data.deals.map throws
    ELSE "merged"

\* setServerPage(nextPage) moved out of if (data.success).
pageAfterAlways(how, nextPage, current) == nextPage

\* The page counted up from its current value: setServerPage((p) => p + 1).
pageAfterIncrement(how, nextPage, current) ==
    IF how = "merged" THEN current + 1 ELSE current

\* setServerPage(nextPage), called whenever data.success (App.js:185)
pageAfter(how, nextPage, current) == IF how = "merged" THEN nextPage ELSE current

\* The updater without its setNoMorePages(true).
exhaustedAfterNever(how, unique, current) == current

\* if (uniqueNew.length === 0) setNoMorePages(true)  (App.js:175)
exhaustedAfter(how, unique, current) ==
    IF how = "merged" /\ Len(unique) = 0 THEN TRUE ELSE current

\* The continuation of loadMoreFromServer after the response.
PageResponse(i, r) ==
    /\ i \in 1..Len(pags)
    /\ LET req == pags[i]
           how == pageOutcome(r)
           newDeals == withIds(r.deals, lastId(deals), r.draw)
           unique == uniqueNew(deals, newDeals)
       IN  /\ pags' = RemoveAt(pags, i)
           /\ isLoadingMore' = FALSE
           /\ serverPage' = pageAfter(how, req.page, serverPage)
           /\ noMorePages' = exhaustedAfter(how, unique, noMorePages)
           /\ IF how = "merged"
              THEN /\ repeats(r.draw, deals, Len(r.deals))
                   /\ withinBounds(mergeMore(deals, newDeals))
              ELSE r.draw = NoRepeat
           /\ deals' = IF how = "merged" THEN mergeMore(deals, newDeals) ELSE deals
           /\ IF how = "merged" THEN Mark(addedIds(deals, newDeals))
              ELSE UNCHANGED <<lastAddedIds, timers, timerRef>>
           /\ lastOp' = [NoOp EXCEPT !.op = "pageResponse",
                                     !.how = IF how = "merged" /\ Len(unique) = 0
                                             THEN "noneNew" ELSE how,
                                     !.stale = req.stale,
                                     !.found = advanced(serverPage, noMorePages),
                                     !.restarted = /\ how = "merged"
                                                   /\ timerRef = "live"
                                                   /\ Len(unique) > 0]
    /\ UNCHANGED <<searchQuery, minDiscount, loading, error, lastKeyword,
                   showOnlyWithCodes, maxResults, budget, searches, boots,
                   debugPromotions, aiStatuses, rewrites>>

-----------------------------------------------------------------------------
(* The highlight timer. *)

\* setTimeout(() => setLastAddedIds([]), 10000) fires.  ofRef: the timeout
\* that fires is the one lastAddedTimerRef.current names.
TimerFire(ofRef) ==
    /\ timers > 0
    /\ IF ofRef THEN timerRef = "live" ELSE timers > (IF timerRef = "live" THEN 1 ELSE 0)
    /\ timers' = timers - 1
    /\ timerRef' = IF ofRef THEN "dead" ELSE timerRef
    /\ lastAddedIds' = <<>>
    /\ lastOp' = [NoOp EXCEPT !.op = "timer", !.restarted = lastOp.restarted]
    /\ UNCHANGED <<deals, searchQuery, minDiscount, loading, error, serverPage,
                   isLoadingMore, lastKeyword, noMorePages, showOnlyWithCodes,
                   maxResults, budget, searches, pags, boots,
                   debugPromotions, aiStatuses, rewrites>>

-----------------------------------------------------------------------------
(* The AI rewrite of one deal (the onClick of its button, App.js:833-858). *)

\* What a rewrite request can end in.
RewriteResponses ==
    { [kind |-> k, success |-> FALSE, rewritten |-> ""] : k \in {"reject", "unparsable"} }
    \cup { [kind |-> "body", success |-> FALSE, rewritten |-> ""],
           [kind |-> "body", success |-> TRUE, rewritten |-> "text"] }

\* d.id === deal.id
rewriteTarget(d, x) == d.id = x

\* { ...d, rewritten: data.rewritten }
rewrittenDeal(d, text) == [d EXCEPT !.rewritten = text]

\* The button of the j-th displayed deal is clicked: the handler runs up to
\* the await of fetch (generatePost(deal) builds the body of the request from
\* the fields the card is rendered from).  The button is disabled while the
\* status is 'Processing…'.
RewriteClick(j) ==
    /\ j \in 1..Len(displayedDeals)
    /\ rewrites.clicks < MaxRewrites
    /\ LET x == displayedDeals[j].id
       IN  /\ aiStatuses[x] # "Processing"
           /\ aiStatuses' = [aiStatuses EXCEPT ![x] = "Processing"]
           /\ rewrites' = [rewrites EXCEPT
                              !.inFlight = Append(@, [id |-> x, seen |-> Len(deals)]),
                              !.clicks = @ + 1]
    /\ lastOp' = [NoOp EXCEPT !.op = "rewriteClick", !.how = "sent"]
    /\ UNCHANGED <<deals, searchQuery, minDiscount, loading, error, lastAddedIds,
                   serverPage, isLoadingMore, lastKeyword, noMorePages,
                   showOnlyWithCodes, maxResults, debugPromotions, timers, timerRef,
                   budget, searches, pags, boots>>

\* The continuation of the handler after the response.
RewriteResponse(k, r) ==
    /\ k \in 1..Len(rewrites.inFlight)
    /\ LET x == rewrites.inFlight[k].id
           done == r.kind = "body" /\ r.success
       IN  /\ deals' = IF done
                       THEN [j \in 1..Len(deals) |->
                                IF rewriteTarget(deals[j], x)
                                THEN rewrittenDeal(deals[j], r.rewritten) ELSE deals[j]]
                       ELSE deals
           /\ aiStatuses' = [aiStatuses EXCEPT ![x] = IF done THEN "Done" ELSE "Error"]
           /\ rewrites' = [rewrites EXCEPT !.inFlight = RemoveAt(@, k),
                                           !.resets[x] = @ + 1]
           /\ lastOp' = [NoOp EXCEPT !.op = "rewriteResponse",
                                     !.how = IF done THEN "done" ELSE "error",
                                     !.stale = Len(deals) > rewrites.inFlight[k].seen]
    /\ UNCHANGED <<searchQuery, minDiscount, loading, error, lastAddedIds, serverPage,
                   isLoadingMore, lastKeyword, noMorePages, showOnlyWithCodes,
                   maxResults, debugPromotions, timers, timerRef, budget, searches,
                   pags, boots>>

\* setTimeout(() => setAiStatuses(... 'Ready'), 3000) fires.
StatusReset(x) ==
    /\ rewrites.resets[x] > 0
    /\ aiStatuses' = [aiStatuses EXCEPT ![x] = "Ready"]
    /\ rewrites' = [rewrites EXCEPT !.resets[x] = @ - 1]
    /\ lastOp' = [NoOp EXCEPT !.op = "statusReset"]
    /\ UNCHANGED <<deals, searchQuery, minDiscount, loading, error, lastAddedIds,
                   serverPage, isLoadingMore, lastKeyword, noMorePages,
                   showOnlyWithCodes, maxResults, debugPromotions, timers, timerRef,
                   budget, searches, pags, boots>>

-----------------------------------------------------------------------------
(* Specifications. *)

\* The application from its construction, the search box left alone.
Next ==
    \/ \E v \in MaxResultsInputs : SetMaxResults(v)
    \/ \E b \in 1..MaxBootRuns : BootCall(b)
    \/ \E b \in 1..MaxBootRuns : BootDelay(b)
    \/ \E i \in 1..MaxSearches, r \in FreshIdResponses : SearchResponse(i, r)
    \/ \E entries \in Entries : Sentinel(entries)
    \/ \E i \in 1..MaxPags, r \in FreshIdPageResponses : PageResponse(i, r)

Spec == Init /\ [][Next]_vars

\* A state Spec reaches: the requests of the first n seeds of autoLoadDeals
\* were rejected and the delay after the last of them is over.
SeedsFailed(bs) ==
    /\ deals = <<>>
    /\ searchQuery = <<>>
    /\ minDiscount = InitMinDiscount
    /\ loading = FALSE
    /\ error = "connect"
    /\ lastAddedIds = <<>>
    /\ serverPage = InitServerPage
    /\ isLoadingMore = FALSE
    /\ lastKeyword = <<>>
    /\ noMorePages = FALSE
    /\ showOnlyWithCodes = FALSE
    /\ maxResults = InitMaxResults
    /\ debugPromotions = FALSE
    /\ timers = 0
    /\ timerRef = "null"
    /\ budget = [manual |-> 0, direct |-> 0, more |-> 0, merges |-> 0]
    /\ searches = <<>>
    /\ pags = <<>>
    /\ boots = bs
    /\ aiStatuses = NoStatuses
    /\ rewrites = NoRewrites
    /\ lastOp = [NoOp EXCEPT !.op = "bootDelay"]

InitLastSeed == SeedsFailed(<< [i |-> 3, pc |-> "call"] >>)

InitSecondSeed == SeedsFailed(<< [i |-> 2, pc |-> "call"] >>)

InitBooted == SeedsFailed(<< [i |-> 3, pc |-> "done"] >>)

\* The last seed of autoLoadDeals, the search box and the scroll.
NextSearch ==
    \/ \E v \in MaxResultsInputs : SetMaxResults(v)
    \/ \E q \in KeywordQueries : SetSearchQuery(q)
    \/ SearchProducts
    \/ \E b \in 1..MaxBootRuns : BootCall(b)
    \/ \E b \in 1..MaxBootRuns : BootDelay(b)
    \/ \E i \in 1..MaxSearches, r \in FreshIdResponses : SearchResponse(i, r)
    \/ \E entries \in Entries : Sentinel(entries)
    \/ \E i \in 1..MaxPags, r \in FreshIdPageResponses : PageResponse(i, r)

SpecSearch == InitLastSeed /\ [][NextSearch]_vars

\* The last two seeds of autoLoadDeals and the scroll, the observer callback
\* invoked with one entry, with the ids that Date.now() + Math.random() can
\* give: new ones and ones that are in use.
NextIds ==
    \/ \E v \in MaxResultsInputs : SetMaxResults(v)
    \/ \E b \in 1..MaxBootRuns : BootCall(b)
    \/ \E b \in 1..MaxBootRuns : BootDelay(b)
    \/ \E i \in 1..MaxSearches, r \in Responses : SearchResponse(i, r)
    \/ \E entries \in OneEntry : Sentinel(entries)
    \/ \E i \in 1..MaxPags, r \in PageResponses : PageResponse(i, r)

SpecIds == InitSecondSeed /\ [][NextIds]_vars

\* The two entries of the fresh search called with any keyword.
NextCall ==
    \/ \E v \in MaxResultsInputs : SetMaxResults(v)
    \/ \E q \in QueryInputs : SetSearchQuery(q)
    \/ SearchProducts
    \/ \E keyword \in KeywordInputs : SearchProductsWithKeyword(keyword)
    \/ \E i \in 1..MaxSearches, r \in FreshIdResponses : SearchResponse(i, r)
    \/ \E entries \in Entries : Sentinel(entries)
    \/ \E i \in 1..MaxPags, r \in FreshIdPageResponses : PageResponse(i, r)

SpecCall == InitBooted /\ [][NextCall]_vars

\* The bootstrap and the controls.
NextControls ==
    \/ \E v \in MinDiscountInputs : SetMinDiscount(v)
    \/ \E v \in BOOLEAN : SetDebugPromotions(v)
    \/ \E v \in MaxResultsInputs : SetMaxResults(v)
    \/ \E v \in BOOLEAN : SetShowOnlyWithCodes(v)
    \/ \E b \in 1..MaxBootRuns : BootCall(b)
    \/ \E b \in 1..MaxBootRuns : BootDelay(b)
    \/ \E i \in 1..MaxSearches, r \in FreshIdResponses : SearchResponse(i, r)

SpecControls == Init /\ [][NextControls]_vars

\* The last seed of autoLoadDeals, the search box, the scroll and the
\* highlight timer.
NextTimer ==
    \/ \E v \in MaxResultsInputs : SetMaxResults(v)
    \/ \E q \in KeywordQueries : SetSearchQuery(q)
    \/ SearchProducts
    \/ \E b \in 1..MaxBootRuns : BootCall(b)
    \/ \E b \in 1..MaxBootRuns : BootDelay(b)
    \/ \E i \in 1..MaxSearches, r \in FreshIdResponses : SearchResponse(i, r)
    \/ \E entries \in Entries : Sentinel(entries)
    \/ \E i \in 1..MaxPags, r \in FreshIdPageResponses : PageResponse(i, r)
    \/ \E ofRef \in BOOLEAN : TimerFire(ofRef)

SpecTimer == InitLastSeed /\ [][NextTimer]_vars

\* The bootstrap alone, every request answered in the end and every delay
\* elapsing: the browser settles every fetch, by a response or by a rejection.
NextBoot ==
    \/ \E b \in 1..MaxBootRuns : BootCall(b)
    \/ \E b \in 1..MaxBootRuns : BootDelay(b)
    \/ \E i \in 1..MaxSearches, r \in FreshIdResponses : SearchResponse(i, r)

SpecBoot ==
    /\ Init
    /\ [][NextBoot]_vars
    /\ WF_vars(\E b \in 1..MaxBootRuns : BootCall(b))
    /\ WF_vars(\E b \in 1..MaxBootRuns : BootDelay(b))
    /\ WF_vars(\E i \in 1..MaxSearches, r \in FreshIdResponses : SearchResponse(i, r))

\* The bootstrap and the AI rewrite of the deals it loads.
NextRewrite ==
    \/ \E b \in 1..MaxBootRuns : BootCall(b)
    \/ \E b \in 1..MaxBootRuns : BootDelay(b)
    \/ \E i \in 1..MaxSearches, r \in Responses : SearchResponse(i, r)
    \/ \E j \in 1..MaxDeals : RewriteClick(j)
    \/ \E k \in 1..MaxRewrites, r \in RewriteResponses : RewriteResponse(k, r)
    \/ \E x \in 1..MaxId : StatusReset(x)

SpecRewrite == Init /\ [][NextRewrite]_vars

\* The two updaters alone, applied to any batches one after the other.
NextMerge ==
    \/ \E batch \in MergeBatches, draw \in IdDraws : ApplyMergeFresh(batch, draw)
    \/ \E batch \in MergeBatches, draw \in IdDraws : ApplyMergeMore(batch, draw)

SpecMerge == Init /\ [][NextMerge]_vars

-----------------------------------------------------------------------------
(* Properties. *)

\* What a response is, read off the response alone.
\* A fresh search fails unless a body arrives with a successful transport
\* status, success = true and a deals array; a pagination request fails unless
\* a body arrives with success = true and a deals array.
SearchFails(r) == r.kind # "body" \/ ~r.ok \/ ~r.success \/ ~r.hasDeals
PageFails(r) == r.kind # "body" \/ ~r.success \/ ~r.hasDeals
AllDuplicates(batch, prev) ==
    LET keys == existingKeys(prev)
    IN  \A j \in 1..Len(batch) : dealKey(batch[j]) = "" \/ dealKey(batch[j]) \in keys
Blank(k) == \A n \in 1..Len(k) : IsSpace(k[n])
\* The branches of a failure; "thrownAfterReset" is the failure of a fresh
\* search raised after its success branch has set the session.
FailedHow == {"thrown", "httpError", "appError", "thrownAfterReset"}
FailedBeforeReset == FailedHow \ {"thrownAfterReset"}
ResponseOps == {"manualResponse", "bootResponse", "directResponse"}

\* C1: in every reachable state no two deals of the raw collection have the
\* same identity key (the first non-empty of deal[dedupeKey], asin, url, title).
NoDuplicateKeys ==
    \A i, j \in 1..Len(deals) : i # j => dealKey(deals[i]) # dealKey(deals[j])

\* C2: at most one pagination request is in flight at any time, the second
\* trigger of one callback invocation included.
AtMostOneInFlight == Len(pags) <= 1

\* C3, as the code has it: a successful pagination response whose deals are
\* all duplicates of deals of the raw collection sets noMorePages, leaves the
\* raw collection unchanged and sets serverPage to the page that was requested.
ExhaustionSetsRequestedPage ==
    [][lastOp'.op = "pageResponse" =>
          \A batch \in PageBatches :
             AllDuplicates(batch, deals) =>
                \A i \in 1..MaxPags :
                   PageResponse(i, WithDeals(TRUE, batch))
                   => (noMorePages' /\ deals' = deals /\ serverPage' = pags[i].page)]_vars

\* C3, as the claim has it: such a response sets noMorePages, leaves the raw
\* collection unchanged and does not change serverPage.
ExhaustionKeepsPage ==
    [][lastOp'.op = "pageResponse" =>
          \A batch \in PageBatches :
             AllDuplicates(batch, deals) =>
                \A i \in 1..MaxPags :
                   PageResponse(i, WithDeals(TRUE, batch))
                   => (noMorePages' /\ deals' = deals /\ serverPage' = serverPage)]_vars

\* C3: the response to a pagination request of the current session brought
\* nothing new; the collection is exhausted and the page has moved on.
ExhaustedByDuplicates ==
    /\ lastOp.op = "pageResponse"
    /\ lastOp.how = "noneNew"
    /\ ~lastOp.stale
    /\ ~lastOp.found
    /\ noMorePages
    /\ serverPage = 2
    /\ Len(deals) >= 2

\* C4: once noMorePages is true no step issues a pagination request, and
\* noMorePages stays true unless the step belongs to a fresh search (the start
\* of searchProducts or the response to a search).
ExhaustedUntilFreshSearch ==
    [][noMorePages =>
          /\ Len(pags') <= Len(pags)
          /\ (noMorePages' \/ lastOp'.op \in {"searchProducts"} \cup ResponseOps)]_vars

\* C4: the sentinel asked for more while the collection was exhausted and no
\* request was in flight, and the guard refused.
RefusedWhenExhausted ==
    /\ lastOp.op = "sentinel"
    /\ lastOp.how = "guarded"
    /\ noMorePages
    /\ ~isLoadingMore
    /\ pags = <<>>

\* C5: the raw collection, its keys distinct, changes on a response only when
\* the response has a successful transport status and success = true, on both
\* paths.
MergeOnlyOnSuccess ==
    [][(NoDuplicateKeys /\ deals' # deals) =>
          /\ \A i \in 1..MaxSearches, r \in Responses :
                 SearchResponse(i, r) => (r.kind = "body" /\ r.ok /\ r.success)
          /\ \A i \in 1..MaxPags, r \in PageResponses :
                 PageResponse(i, r) => (r.kind = "body" /\ r.ok /\ r.success)]_vars

\* C6: a pagination response that fails (the fetch rejects, the body cannot be
\* parsed, success = false, or success = true without a deals array) leaves
\* serverPage, noMorePages and the raw collection unchanged and isLoadingMore
\* false, and the request a trigger would send is the same as before the
\* response.
FailedPageLeavesSession ==
    [][lastOp'.op = "pageResponse" =>
          \A i \in 1..MaxPags, r \in PageResponses :
             (PageFails(r) /\ PageResponse(i, r))
             => /\ serverPage' = serverPage
                /\ noMorePages' = noMorePages
                /\ deals' = deals
                /\ ~isLoadingMore'
                /\ pageRequest(lastKeyword', serverPage')
                       = pageRequest(lastKeyword, serverPage)]_vars

\* C6: the only pagination request in flight has failed; the collection has
\* its deals, the session is on page 1 still, not exhausted, and the guard is
\* open again.
FailedPageAnswered ==
    /\ lastOp.op = "pageResponse"
    /\ lastOp.how \in FailedHow
    /\ ~lastOp.stale
    /\ pags = <<>>
    /\ Len(deals) >= 2
    /\ serverPage = 1
    /\ loadMoreGuard(isLoadingMore, noMorePages)

\* C7: a fresh search whose request fails (the fetch rejects or its body
\* cannot be read, the transport status is not a success, or success = false)
\* leaves serverPage and noMorePages as they were before the search was
\* started, by searchProducts or by autoLoadDeals; stated for the search that
\* is answered right after it was started.
FailedSearchRestoresSession ==
    [][(lastOp.op \in {"searchProducts", "autoLoadDeals"} /\ lastOp.how = "sent") =>
          \A r \in Responses :
             (/\ SearchFails(r)
              /\ searchOutcome(r) \in FailedBeforeReset
              /\ SearchResponse(Len(searches), r))
             => (serverPage' = searches[Len(searches)].was.page
                 /\ noMorePages' = searches[Len(searches)].was.exhausted)]_vars

\* C7: a search typed when the session had advanced has failed before its
\* success branch; the session is on page 1 and not exhausted.
FailedManualSearchAnswered ==
    /\ lastOp.op = "manualResponse"
    /\ lastOp.how \in FailedBeforeReset
    /\ lastOp.began
    /\ serverPage = 1
    /\ ~noMorePages

\* C8: a fresh search with an empty or all-whitespace keyword, entered through
\* searchProducts or through searchProductsWithKeyword, issues no request and
\* leaves the raw collection, serverPage, noMorePages and lastKeyword unchanged.
BlankKeywordIsRejected ==
    [][/\ lastOp'.op = "searchProducts" =>
             ((Blank(searchQuery) /\ SearchProducts)
              => (searches' = searches /\ pags' = pags /\ deals' = deals
                  /\ serverPage' = serverPage /\ noMorePages' = noMorePages
                  /\ lastKeyword' = lastKeyword))
       /\ lastOp'.op = "searchProductsWithKeyword" =>
             \A keyword \in KeywordInputs :
                (Blank(keyword) /\ SearchProductsWithKeyword(keyword))
                => (searches' = searches /\ pags' = pags /\ deals' = deals
                    /\ serverPage' = serverPage /\ noMorePages' = noMorePages
                    /\ lastKeyword' = lastKeyword)]_vars

\* C8: searchProductsWithKeyword was called with a blank keyword on a session
\* that had deals and had advanced, and returned on its keyword test.
BlankKeywordRefused ==
    /\ lastOp.op = "searchProductsWithKeyword"
    /\ lastOp.how = "empty"
    /\ lastOp.found
    /\ deals # <<>>
    /\ error = "empty"

\* C9: when the response to a fresh search for a keyword is a success, then
\* serverPage = 1, noMorePages = false and lastKeyword is that keyword.
SuccessfulSearchResetsSession ==
    [][lastOp'.op \in ResponseOps =>
          \A i \in 1..MaxSearches, r \in FreshIdResponses :
             (r.kind = "body" /\ r.ok /\ r.success /\ SearchResponse(i, r))
             => (serverPage' = 1 /\ ~noMorePages' /\ lastKeyword' = searches[i].keyword)]_vars

\* C9: a fresh search has succeeded on a session that had advanced.
AdvancedSessionReset ==
    /\ lastOp.op \in ResponseOps
    /\ lastOp.how = "merged"
    /\ lastOp.found
    /\ serverPage = 1
    /\ ~noMorePages
    /\ lastKeyword # <<>>

\* C10: the response to a pagination request that a fresh search, started
\* while the request was in flight and since succeeded, has superseded changes
\* neither serverPage nor noMorePages.
StalePageLeavesSession ==
    [][lastOp'.op = "pageResponse" =>
          \A i \in 1..MaxPags, r \in PageResponses :
             (i \in 1..Len(pags) /\ pags[i].stale /\ PageResponse(i, r))
             => (serverPage' = serverPage /\ noMorePages' = noMorePages)]_vars

\* The searches awaiting a response that autoLoadDeals has sent.
bootSearches == { i \in 1..Len(searches) : searches[i].caller = "boot" }

\* C11: the sequence over the seed keywords is started once in the lifetime of
\* the component: exactly one autoLoadDeals loop exists in every state, whatever
\* control has been moved.
BootstrapStartedOnce == Len(boots) = 1

\* C12: at no time are two search requests of the bootstrap in flight.
OneBootSearchInFlight == Cardinality(bootSearches) <= 1

\* C13: every seed keyword is searched in the end, whatever the outcome of the
\* searches before it, and then the loop of autoLoadDeals is over.
BootstrapCompletes ==
    /\ \A k \in 1..Len(defaultKeywords) :
           <>(\E i \in bootSearches : searches[i].keyword = defaultKeywords[k])
    /\ <>(\A b \in 1..Len(boots) : boots[b].pc = "done")

\* C13: the loop is over after the searches for all three seeds have failed.
BootstrapOverAllFailed ==
    /\ boots = << [i |-> Len(defaultKeywords), pc |-> "done"] >>
    /\ lastOp.op = "bootDelay"
    /\ deals = <<>>
    /\ lastKeyword = <<>>
    /\ error = "connect"

MergeOps == ResponseOps \cup {"pageResponse"}

\* C14: in every state at most one highlight-expiry timeout is pending.
OneTimerPending == timers <= 1

\* C14: a batch has been marked while the timeout of an earlier batch was
\* pending, and one timeout is pending.
TimerReplaced ==
    /\ lastOp.restarted
    /\ timers = 1
    /\ timerRef = "live"

\* C15: a batch marked while a timeout is pending leaves one timeout pending,
\* the one lastAddedTimerRef.current names; the timeout that fires is always
\* that one, none is pending after it, and the highlight set is emptied by
\* nothing but a timeout that fires.
OnlyLatestTimerFires ==
    [][/\ (lastOp'.op \in MergeOps /\ timers > 0 /\ lastAddedIds' # lastAddedIds)
          => (timers' = 1 /\ timerRef' = "live")
       /\ lastOp'.op = "timer"
          => (timerRef = "live" /\ timerRef' = "dead" /\ timers' = 0 /\ lastAddedIds' = <<>>)
       /\ (lastAddedIds # <<>> /\ lastAddedIds' = <<>>) => lastOp'.op = "timer"]_vars

\* C15: the one pending timeout has fired right after a batch had been marked
\* while an earlier timeout was pending: the highlight set is empty, nothing
\* is pending.
LatestTimerFired ==
    /\ lastOp.op = "timer"
    /\ lastOp.restarted
    /\ timers = 0
    /\ timerRef = "dead"
    /\ lastAddedIds = <<>>

\* The deals a merge has put into the collection: the updater of the fresh
\* search returns [...uniqueNew, ...prev], the updater of the pagination
\* [...prev, ...uniqueNew], so they are the deals before, or after, the deals
\* the collection had.
PageOps == {"pageResponse", "mergeMore"}

addedBy(before, after, op) ==
    IF op \in PageOps
    THEN SubSeq(after, Len(before) + 1, Len(after))
    ELSE SubSeq(after, 1, Len(after) - Len(before))

\* The deals the collection had are all there after the merge, in their order.
keptBy(before, after, op) ==
    /\ Len(after) >= Len(before)
    /\ IF op \in PageOps
       THEN SubSeq(after, 1, Len(before)) = before
       ELSE SubSeq(after, Len(after) - Len(before) + 1, Len(after)) = before

\* C16: a merge that adds deals sets the highlight set to the ids of the deals
\* it adds, in their order, whether or not an id is that of another deal; a
\* merge that adds none changes neither the highlight set nor the pending
\* timeout.
MarkReplacesHighlight ==
    [][lastOp'.op \in MergeOps =>
          LET added == addedBy(deals, deals', lastOp'.op)
          IN  /\ keptBy(deals, deals', lastOp'.op)
              /\ IF added # <<>>
                 THEN lastAddedIds' = [i \in 1..Len(added) |-> added[i].id]
                 ELSE UNCHANGED <<lastAddedIds, timers, timerRef>>]_vars

\* C16: the highlight set of an earlier batch has been replaced by the id of
\* the one deal a later merge added, an id that an older deal has as well.
HighlightReplaced ==
    /\ lastOp.op \in MergeOps
    /\ lastOp.restarted
    /\ Len(lastAddedIds) = 1
    /\ Cardinality({ i \in 1..Len(deals) : deals[i].id = lastAddedIds[1] }) = 2

\* C17: of the candidates of one response that have the same identity key, a
\* key the raw collection does not have yet, a merge adds exactly one: no two
\* of the deals a merge adds have the same key.
MergeAddsOnePerKey ==
    [][lastOp'.op \in MergeOps =>
          LET added == addedBy(deals, deals', lastOp'.op)
          IN  \A i, j \in 1..Len(added) :
                 i # j => dealKey(added[i]) # dealKey(added[j])]_vars

\* C18: a merge adds no candidate whose identity key is the key of a deal the
\* raw collection has at the moment of the merge, whatever id the candidate is
\* given, and the deals the collection has stay.
MergeSkipsExistingKeys ==
    [][lastOp'.op \in MergeOps =>
          LET added == addedBy(deals, deals', lastOp'.op)
          IN  /\ keptBy(deals, deals', lastOp'.op)
              /\ \A j \in 1..Len(added) : dealKey(added[j]) \notin existingKeys(deals)]_vars

\* C18: the collection was [A1] and the response to the next seed of the
\* bootstrap brought [A1, A2]: only A2, the second candidate, has been added,
\* under the id that A1 has.
OnlyNewCandidateAdded ==
    /\ lastOp.op = "bootResponse"
    /\ lastOp.how = "merged"
    /\ Len(deals) = 2
    /\ deals[1].asin = "A2" /\ deals[1].id = 1
    /\ deals[2].asin = "A1" /\ deals[2].id = 1
    /\ lastAddedIds = <<1>>

\* C19: merging a batch again, against the collection its first merge
\* produced, adds no deal, whatever ids its deals are given the second time:
\* no candidate is unique and either updater returns the collection as it is.
SecondMergeAddsNothing ==
    [][lastOp'.op \in {"mergeFresh", "mergeMore"} =>
          ((\/ lastOp'.op = "mergeFresh" /\ ApplyMergeFresh(lastOp'.batch, lastOp'.draw)
            \/ lastOp'.op = "mergeMore" /\ ApplyMergeMore(lastOp'.batch, lastOp'.draw))
           /\ \A draw \in IdDraws :
                 repeats(draw, deals', Len(lastOp'.batch)) =>
                    LET again == withIds(lastOp'.batch, lastId(deals'), draw)
                    IN  /\ uniqueNew(deals', again) = <<>>
                        /\ mergeFresh(deals', again) = deals'
                        /\ mergeMore(deals', again) = deals')]_vars

\* C19: a batch of two candidates with the same key has been merged into a
\* collection that had another deal, and two deals of the collection have the
\* same id.
TwinsMerged ==
    /\ lastOp.op \in {"mergeFresh", "mergeMore"}
    /\ Len(deals) = 3
    /\ \E i, j \in 1..Len(deals) :
          i # j /\ dealKey(deals[i]) = dealKey(deals[j]) /\ deals[i].asin = ""
    /\ \E i, j \in 1..Len(deals) : i # j /\ deals[i].id = deals[j].id

\* C20: for the raw collection as it is, a higher minDiscount never gives more
\* filtered deals and a lower maxResults never gives more displayed deals:
\* for the step of either slider, and for any two positions of it.
FilterMonotone ==
    [][/\ lastOp'.op = "setMinDiscount" =>
             /\ minDiscount' > minDiscount => Len(filtered') <= Len(filtered)
             /\ \A lo, hi \in DiscountLevels, c \in BOOLEAN :
                    lo <= hi => Len(filteredOf(deals, hi, c)) <= Len(filteredOf(deals, lo, c))
       /\ (lastOp'.op = "control" /\ maxResults' # maxResults) =>
             /\ maxResults' < maxResults => Len(displayedDeals') <= Len(displayedDeals)
             /\ \A lo, hi \in ResultLevels :
                    lo <= hi => Len(slice0(filtered, lo)) <= Len(slice0(filtered, hi))]_vars

\* C20: minDiscount has been raised over the discount of one of the two deals
\* of the collection, which is filtered out now.
FilterTightened ==
    /\ lastOp.op = "setMinDiscount"
    /\ minDiscount > InitMinDiscount
    /\ NoDuplicateKeys
    /\ Len(filteredOf(deals, InitMinDiscount, showOnlyWithCodes)) = 2
    /\ Len(filtered) = 1

\* The message an attempt that took the branch how leaves: none after a
\* success, the message of the branch after a failure.
ErrorOf(how) ==
    CASE how \in {"merged", "noneNew"} -> ""
      [] how = "httpError" -> "server"
      [] how = "appError" -> "failed"
      [] OTHER -> "connect"

\* C21: after the response to a fresh search or to a pagination request has
\* been handled, error is the message of that attempt if it failed and empty
\* if it succeeded.
ErrorIsOfLastAttempt ==
    [][lastOp'.op \in MergeOps => error' = ErrorOf(lastOp'.how)]_vars

\* C22: lastKeyword is unset or a non-empty string equal to its trimmed form,
\* serverPage is at least 1, and every request awaiting its response carries
\* a non-empty trimmed keyword.
SessionKeywordTrimmed ==
    /\ lastKeyword = <<>> \/ (trim(lastKeyword) = lastKeyword /\ ~Blank(lastKeyword))
    /\ serverPage >= 1
    /\ \A i \in 1..Len(searches) :
          searches[i].sent # <<>> /\ trim(searches[i].sent) = searches[i].sent
    /\ \A i \in 1..Len(pags) :
          pags[i].keyword # <<>> /\ trim(pags[i].keyword) = pags[i].keyword

\* C23, as the code has it: a successful pagination response, whether it adds
\* deals or not, sets serverPage to the page that was requested; a failed one
\* leaves serverPage unchanged; a response that adds a deal leaves noMorePages
\* unchanged; every response ends with isLoadingMore false.
PageSetToRequested ==
    [][lastOp'.op = "pageResponse" =>
          /\ ~isLoadingMore'
          /\ Len(deals') > Len(deals) => noMorePages' = noMorePages
          /\ \E i \in 1..Len(pags) :
                /\ pags' = RemoveAt(pags, i)
                /\ serverPage' = IF lastOp'.how \in {"merged", "noneNew"}
                                  THEN pags[i].page ELSE serverPage]_vars

\* C23, as the claim has it: a pagination response that adds a deal increases
\* serverPage by 1 and ends with noMorePages and isLoadingMore false; any other
\* pagination response leaves serverPage unchanged.
PageAdvancesOnlyWithNewDeals ==
    [][lastOp'.op = "pageResponse" =>
          IF Len(deals') > Len(deals)
          THEN serverPage' = serverPage + 1 /\ ~noMorePages' /\ ~isLoadingMore'
          ELSE serverPage' = serverPage]_vars

\* C23: the response to the request for page 2 has added a deal to the two of
\* the first page.
NewPageMerged ==
    /\ lastOp.op = "pageResponse"
    /\ lastOp.how = "merged"
    /\ ~lastOp.stale
    /\ pags = <<>>
    /\ Len(deals) = 3
    /\ lastAddedIds = <<3>>
    /\ serverPage = 2
    /\ ~noMorePages
    /\ ~isLoadingMore

\* The deals of added are candidates of the response, in the order they have
\* there: added is what is left of candidates when some are taken out.
RECURSIVE InBatchOrder(_, _)
InBatchOrder(added, candidates) ==
    IF added = <<>> THEN TRUE
    ELSE IF candidates = <<>> THEN FALSE
    ELSE IF Head(added) = Head(candidates)
         THEN InBatchOrder(Tail(added), Tail(candidates))
         ELSE InBatchOrder(added, Tail(candidates))

\* C24: the updater of the fresh search puts the deals it adds, in the order
\* of the response, before the deals of the collection, the updater of the
\* pagination after them; the deals of the collection stay, in their order.
MergeKeepsOrder ==
    [][LET candidates == withIds(lastOp'.batch, lastId(deals), lastOp'.draw)
       IN  /\ lastOp'.op = "mergeFresh" =>
                 LET n == Len(deals') - Len(deals)
                 IN  /\ ApplyMergeFresh(lastOp'.batch, lastOp'.draw)
                     /\ n >= 0
                     /\ SubSeq(deals', n + 1, Len(deals')) = deals
                     /\ InBatchOrder(SubSeq(deals', 1, n), candidates)
           /\ lastOp'.op = "mergeMore" =>
                 /\ ApplyMergeMore(lastOp'.batch, lastOp'.draw)
                 /\ Len(deals') >= Len(deals)
                 /\ SubSeq(deals', 1, Len(deals)) = deals
                 /\ InBatchOrder(SubSeq(deals', Len(deals) + 1, Len(deals')),
                                 candidates)]_vars

\* C24: the fresh-search updater has put two new deals, in the order of the
\* response, before the deal of the collection, one of them under its id.
FreshBeforeExisting ==
    /\ lastOp.op = "mergeFresh"
    /\ Len(lastOp.batch) = 2
    /\ Len(deals) = 3
    /\ deals[1].asin = lastOp.batch[1].asin /\ deals[1].title = lastOp.batch[1].title
    /\ deals[2].asin = lastOp.batch[2].asin /\ deals[2].title = lastOp.batch[2].title
    /\ deals[1] # deals[2]
    /\ \E k \in 1..2 : deals[k].id = deals[3].id

\* The first non-empty of deal[dedupeKey], asin, url, title.
firstNonEmptyKey(p) == OrChain(<<p[dedupeKey], p.asin, p.url, p.title>>)

\* C25: either updater adds exactly the candidates whose first non-empty value
\* among deal[dedupeKey], asin, url, title exists and is not that of a deal of
\* the collection, whatever ids they are given; a candidate with none is
\* never in the collection.
KeyIsFirstNonEmpty ==
    [][lastOp'.op \in {"mergeFresh", "mergeMore"} =>
          LET keys == { firstNonEmptyKey(deals[i]) : i \in 1..Len(deals) }
              candidates == withIds(lastOp'.batch, lastId(deals), lastOp'.draw)
          IN  /\ \/ lastOp'.op = "mergeFresh" /\ ApplyMergeFresh(lastOp'.batch, lastOp'.draw)
                 \/ lastOp'.op = "mergeMore" /\ ApplyMergeMore(lastOp'.batch, lastOp'.draw)
              /\ keptBy(deals, deals', lastOp'.op)
              /\ addedBy(deals, deals', lastOp'.op)
                    = SelectSeq(candidates, LAMBDA n : /\ firstNonEmptyKey(n) # ""
                                                       /\ firstNonEmptyKey(n) \notin keys)
              /\ \A j \in 1..Len(deals') : firstNonEmptyKey(deals'[j]) # ""]_vars

\* C25: the collection has a deal whose key is its url, one whose key is its
\* title, and one whose key is its asin, the last one added under an id that
\* was in use.
KeyedByEveryField ==
    /\ lastOp.op \in {"mergeFresh", "mergeMore"}
    /\ lastOp.draw # NoRepeat
    /\ \E i \in 1..Len(deals) : deals[i].asin # ""
    /\ \E i \in 1..Len(deals) : deals[i].asin = "" /\ deals[i].url # ""
    /\ \E i \in 1..Len(deals) : deals[i].asin = "" /\ deals[i].url = ""

\* A deal has a coupon code in one of its four fields.
hasCode(d) == d.code # "" \/ d.couponCode # "" \/ d.promoCode # "" \/ d.coupon # ""

\* C26: filtered is the subsequence of the raw collection of the deals that
\* have a discount, a number, with discount >= minDiscount and, when showOnlyWithCodes is set, a coupon code;
\* displayedDeals is the first min(|filtered|, maxResults) deals of filtered;
\* and a step of one of the three controls leaves the raw collection unchanged.
ViewIsProjection ==
    [][/\ filtered = SelectSeq(deals, LAMBDA d : /\ d.discount # NoDiscount
                                                 /\ d.discount[1] >= minDiscount
                                                 /\ showOnlyWithCodes => hasCode(d))
       /\ displayedDeals
             = SubSeq(filtered, 1,
                      IF Len(filtered) < maxResults THEN Len(filtered) ELSE maxResults)
       /\ lastOp'.op \in {"control", "setMinDiscount"} => deals' = deals]_vars

\* C26: the only deal of the collection has no discount, and it is displayed
\* while minDiscount is 20.
UndiscountedDealShown ==
    /\ Len(deals) = 1
    /\ deals[1].discount = NoDiscount
    /\ minDiscount = InitMinDiscount
    /\ displayedDeals = deals

\* C27: a step issues pagination requests only if it is the observer callback
\* with an entry that is intersecting, and filtered is longer than
\* displayedDeals, that is longer than maxResults, at that moment.
SentinelOnlyWhenMoreToShow ==
    [][Len(pags') > Len(pags) =>
          /\ lastOp'.op = "sentinel"
          /\ Len(filtered) > Len(displayedDeals)
          /\ Len(filtered) > maxResults
          /\ \A entries \in Entries :
                Sentinel(entries) => \E k \in 1..Len(entries) : entries[k]]_vars

\* C27: the sentinel was reported visible while every filtered deal was
\* displayed, nothing was in flight and the collection was not exhausted; no
\* request has been issued.
SentinelShownAll ==
    /\ lastOp.op = "sentinel"
    /\ lastOp.how = "shown"
    /\ deals # <<>>
    /\ Len(filtered) <= maxResults
    /\ loadMoreGuard(isLoadingMore, noMorePages)
    /\ pags = <<>>

\* C28: the response to a rewrite request changes one deal at most, the one
\* whose button was clicked, and of it the rewritten field only; the length
\* and the order of the raw collection and every other deal are left, and a
\* failed one changes no deal.
RewriteChangesOneDeal ==
    [][lastOp'.op = "rewriteResponse" =>
          /\ Len(deals') = Len(deals)
          /\ Cardinality({ j \in 1..Len(deals) : deals'[j] # deals[j] }) <= 1
          /\ \A j \in 1..Len(deals) :
                deals'[j] = [deals[j] EXCEPT !.rewritten = deals'[j].rewritten]
          /\ lastOp'.how = "error" => deals' = deals]_vars

\* C28: one response has rewritten two deals, which have the same id.
RewroteTwoDeals ==
    /\ lastOp.op = "rewriteResponse"
    /\ lastOp.how = "done"
    /\ rewrites.clicks = 1
    /\ \E i, j \in 1..Len(deals) :
          /\ i # j
          /\ deals[i].id = deals[j].id
          /\ deals[i].rewritten # ""
          /\ deals[j].rewritten # ""

\* C29: when two fresh searches overlap and both succeed, the session keyword
\* after both responses is that of the search started last: the success of a
\* search that a later search has overtaken leaves the session keyword.
LastStartedSearchKeepsSession ==
    [][(lastOp'.op \in ResponseOps /\ lastOp'.how = "merged" /\ lastOp'.stale)
          => lastKeyword' = lastKeyword]_vars

\* C30: loading is true whenever a fresh search awaits its response.
LoadingWhileSearching == Len(searches) > 0 => loading

====
